---- MODULE Spec2Model ----
(***************************************************************************)
(* Model of the invoice builder of samora/mpowergo (invoice.go): the       *)
(* ordered item/tax slices, the derived transmission maps built by         *)
(* PrepareForRequest, the scalar setters and the custom data map, with the *)
(* RWMutex embedded in Invoice.                                            *)
(*                                                                         *)
(* Spec       : the item/tax mutators and PrepareForRequest, calls executed *)
(*              one at a time, each handler one action.                    *)
(* SpecItems  : the item operations on records whose fields differ.        *)
(* SpecFields : the scalar setters, SetCustomData and the clears, one call *)
(*              at a time.                                                 *)
(* SpecConc   : SetCustomData and PrepareForRequest executed statement by  *)
(*              statement by two goroutines sharing an invoice that was    *)
(*              built beforehand.                                          *)
(* SpecConcFair : SpecConc with the fairness of the Go scheduler and mutex. *)
(***************************************************************************)
EXTENDS Integers, Sequences, FiniteSets, TLC

\* ------------------------------------------------------------------ inputs
Names == {"A", "B", "C"}
Quantities == {1}
UnitPrices == {50}
TotalPrices == {50}
ItemDescs == {"desc"}
TaxNames == {"VAT", "NHIL"}
TaxAmounts == {30}
Descs == {"", "Hello World"}
Amounts == {0, 80, 42}
Keys == {"k1", "k2"}
Vals == {"v1", "v2"}
\* the goroutines sharing one Invoice
Threads == {1, 2}

VARIABLES
    ItemsArr,     \* invoice.ItemsArr   []item
    TaxesArr,     \* invoice.TaxesArr   []tax
    Items,        \* invoice.Items      map[string]item
    Taxes,        \* invoice.Taxes      map[string]tax
    TotalAmount,  \* invoice.TotalAmount
    Description,  \* invoice.Description
    CustomData,   \* Invoice.CustomData map[string]interface{}
    mutex,        \* Invoice.RWMutex: 0 when free, else the goroutine holding it
    pc,           \* per goroutine: the statement it is about to execute
    frame,        \* per goroutine: arguments and locals of the call in progress
    overlap,      \* per goroutine t and goroutine u: the latest SetCustomData call of u
                  \* that returned while the current SetCustomData call of t was in progress
    ret,          \* the serialized call that returned most recently, with its result
    prevOp,       \* the name of the serialized call before that one
    finalized     \* a PrepareForRequest has returned

vars == <<ItemsArr, TaxesArr, Items, Taxes, TotalAmount, Description, CustomData,
          mutex, pc, frame, overlap, ret, prevOp, finalized>>

invoiceVars == <<ItemsArr, TaxesArr, Items, Taxes, TotalAmount, Description, CustomData>>
threadVars == <<mutex, pc, frame, overlap>>

\* ------------------------------------------------------------ value types
\* item{} and tax{}: the zero values of the structs
ZeroItem == [Name |-> "", Quantity |-> 0, UnitPrice |-> 0, TotalPrice |-> 0, Description |-> ""]
ZeroTax == [Name |-> "", Amount |-> 0]

\* A Go map is nil until made; a nil map reads as empty.
NilMap == [nil |-> TRUE, kv |-> <<>>]
MakeMap == [nil |-> FALSE, kv |-> <<>>]
MapKeys(m) == DOMAIN m.kv
MapSet(m, k, v) == [nil |-> m.nil, kv |-> (k :> v) @@ m.kv]
MapGet(m, k, zero) == IF k \in DOMAIN m.kv THEN m.kv[k] ELSE zero

NoError == "nil"
DuplicateName == "DuplicateName"
Panic == "panic"
NoArg == [Name |-> ""]

\* fmt.Sprintf("item_%d", ix), fmt.Sprintf("tax_%d", ix)
ItemKey(ix) == "item_" \o ToString(ix)
TaxKey(ix) == "tax_" \o ToString(ix)

\* the scan of AddItem / AddTax / RemoveItem / RemoveTax: 0-based index of the
\* first element named name, or -1
RECURSIVE IndexOf(_, _, _)
IndexOf(arr, name, ix) ==
    IF ix >= Len(arr) THEN -1
    ELSE IF arr[ix + 1].Name = name THEN ix
    ELSE IndexOf(arr, name, ix + 1)

\* arr[:ix] alone: the tail after the removed element is dropped
RemoveAt_DropTail(arr, ix) == SubSeq(arr, 1, ix)

\* append(arr[:ix], arr[ix+1:]...)
RemoveAt(arr, ix) == SubSeq(arr, 1, ix) \o SubSeq(arr, ix + 2, Len(arr))

AllIdle == \A t \in Threads : pc[t] = "idle"

Returned(op, arg, err) ==
    /\ ret' = [op |-> op, arg |-> arg, err |-> err]
    /\ prevOp' = ret.op

\* ------------------------------------------------------------ the mutators
\* AddItem without the scan for an existing name
AddItem_NoScan(name, quantity, unitPrice, totalPrice, desc) ==
    /\ AllIdle
    /\ LET tempItem == [Name |-> name, Quantity |-> quantity, UnitPrice |-> unitPrice,
                        TotalPrice |-> totalPrice, Description |-> desc]
       IN  /\ ItemsArr' = Append(ItemsArr, tempItem)
           /\ Returned("AddItem", tempItem, NoError)
    /\ UNCHANGED <<TaxesArr, Items, Taxes, TotalAmount, Description, CustomData,
                   threadVars, finalized>>

\* AddItem that appends before it scans, so a duplicate is stored and then reported
AddItem_ScanAfterAppend(name, quantity, unitPrice, totalPrice, desc) ==
    /\ AllIdle
    /\ LET tempItem == [Name |-> name, Quantity |-> quantity, UnitPrice |-> unitPrice,
                        TotalPrice |-> totalPrice, Description |-> desc]
       IN  /\ ItemsArr' = Append(ItemsArr, tempItem)
           /\ Returned("AddItem", tempItem,
                       IF IndexOf(ItemsArr, name, 0) >= 0 THEN DuplicateName ELSE NoError)
    /\ UNCHANGED <<TaxesArr, Items, Taxes, TotalAmount, Description, CustomData,
                   threadVars, finalized>>

\* AddItem that inserts the new item at the front
AddItem_Prepend(name, quantity, unitPrice, totalPrice, desc) ==
    /\ AllIdle
    /\ LET tempItem == [Name |-> name, Quantity |-> quantity, UnitPrice |-> unitPrice,
                        TotalPrice |-> totalPrice, Description |-> desc]
       IN  IF IndexOf(ItemsArr, name, 0) >= 0
           THEN /\ ItemsArr' = ItemsArr
                /\ Returned("AddItem", tempItem, DuplicateName)
           ELSE /\ ItemsArr' = <<tempItem>> \o ItemsArr
                /\ Returned("AddItem", tempItem, NoError)
    /\ UNCHANGED <<TaxesArr, Items, Taxes, TotalAmount, Description, CustomData,
                   threadVars, finalized>>

\* AddItem that overwrites the record of an existing name before reporting it
AddItem_Upsert(name, quantity, unitPrice, totalPrice, desc) ==
    /\ AllIdle
    /\ LET tempItem == [Name |-> name, Quantity |-> quantity, UnitPrice |-> unitPrice,
                        TotalPrice |-> totalPrice, Description |-> desc]
           ix == IndexOf(ItemsArr, name, 0)
       IN  IF ix >= 0
           THEN /\ ItemsArr' = [ItemsArr EXCEPT ![ix + 1] = tempItem]
                /\ Returned("AddItem", tempItem, DuplicateName)
           ELSE /\ ItemsArr' = Append(ItemsArr, tempItem)
                /\ Returned("AddItem", tempItem, NoError)
    /\ UNCHANGED <<TaxesArr, Items, Taxes, TotalAmount, Description, CustomData,
                   threadVars, finalized>>

AddItem(name, quantity, unitPrice, totalPrice, desc) ==
    /\ AllIdle
    /\ LET tempItem == [Name |-> name, Quantity |-> quantity, UnitPrice |-> unitPrice,
                        TotalPrice |-> totalPrice, Description |-> desc]
       IN  IF IndexOf(ItemsArr, name, 0) >= 0
           THEN /\ ItemsArr' = ItemsArr
                /\ Returned("AddItem", tempItem, DuplicateName)
           ELSE /\ ItemsArr' = Append(ItemsArr, tempItem)
                /\ Returned("AddItem", tempItem, NoError)
    /\ UNCHANGED <<TaxesArr, Items, Taxes, TotalAmount, Description, CustomData,
                   threadVars, finalized>>

\* RemoveItem that also resets the transmission map
RemoveItem_Eager(name) ==
    /\ AllIdle
    /\ LET ix == IndexOf(ItemsArr, name, 0)
       IN  ItemsArr' = IF ix >= 0 THEN RemoveAt(ItemsArr, ix) ELSE ItemsArr
    /\ Items' = MakeMap
    /\ Returned("RemoveItem", [Name |-> name], NoError)
    /\ UNCHANGED <<TaxesArr, Taxes, TotalAmount, Description, CustomData,
                   threadVars, finalized>>

RemoveItem(name) ==
    /\ AllIdle
    /\ LET ix == IndexOf(ItemsArr, name, 0)
       IN  ItemsArr' = IF ix >= 0 THEN RemoveAt(ItemsArr, ix) ELSE ItemsArr
    /\ Returned("RemoveItem", [Name |-> name], NoError)
    /\ UNCHANGED <<TaxesArr, Items, Taxes, TotalAmount, Description, CustomData,
                   threadVars, finalized>>

\* ClearAllItems that forgets the transmission map
ClearAllItems_KeepMap ==
    /\ AllIdle
    /\ ItemsArr' = <<>>
    /\ Items' = Items
    /\ Returned("ClearAllItems", NoArg, NoError)
    /\ UNCHANGED <<TaxesArr, Taxes, TotalAmount, Description, CustomData,
                   threadVars, finalized>>

ClearAllItems ==
    /\ AllIdle
    /\ ItemsArr' = <<>>
    /\ Items' = MakeMap
    /\ Returned("ClearAllItems", NoArg, NoError)
    /\ UNCHANGED <<TaxesArr, Taxes, TotalAmount, Description, CustomData,
                   threadVars, finalized>>

\* AddTax that also invalidates the transmission map
AddTax_Eager(name, amount) ==
    /\ AllIdle
    /\ LET tempTax == [Name |-> name, Amount |-> amount]
       IN  IF IndexOf(TaxesArr, name, 0) >= 0
           THEN /\ TaxesArr' = TaxesArr
                /\ Taxes' = Taxes
                /\ Returned("AddTax", tempTax, DuplicateName)
           ELSE /\ TaxesArr' = Append(TaxesArr, tempTax)
                /\ Taxes' = MakeMap
                /\ Returned("AddTax", tempTax, NoError)
    /\ UNCHANGED <<ItemsArr, Items, TotalAmount, Description, CustomData,
                   threadVars, finalized>>

AddTax(name, amount) ==
    /\ AllIdle
    /\ LET tempTax == [Name |-> name, Amount |-> amount]
       IN  IF IndexOf(TaxesArr, name, 0) >= 0
           THEN /\ TaxesArr' = TaxesArr
                /\ Returned("AddTax", tempTax, DuplicateName)
           ELSE /\ TaxesArr' = Append(TaxesArr, tempTax)
                /\ Returned("AddTax", tempTax, NoError)
    /\ UNCHANGED <<ItemsArr, Items, Taxes, TotalAmount, Description, CustomData,
                   threadVars, finalized>>

\* RemoveTax whose scan starts at the second element
RemoveTax_SkipFirst(name) ==
    /\ AllIdle
    /\ LET ix == IndexOf(TaxesArr, name, 1)
       IN  TaxesArr' = IF ix >= 0 THEN RemoveAt(TaxesArr, ix) ELSE TaxesArr
    /\ Returned("RemoveTax", [Name |-> name], NoError)
    /\ UNCHANGED <<ItemsArr, Items, Taxes, TotalAmount, Description, CustomData,
                   threadVars, finalized>>

RemoveTax(name) ==
    /\ AllIdle
    /\ LET ix == IndexOf(TaxesArr, name, 0)
       IN  TaxesArr' = IF ix >= 0 THEN RemoveAt(TaxesArr, ix) ELSE TaxesArr
    /\ Returned("RemoveTax", [Name |-> name], NoError)
    /\ UNCHANGED <<ItemsArr, Items, Taxes, TotalAmount, Description, CustomData,
                   threadVars, finalized>>

ClearAllTaxes ==
    /\ AllIdle
    /\ TaxesArr' = <<>>
    /\ Taxes' = MakeMap
    /\ Returned("ClearAllTaxes", NoArg, NoError)
    /\ UNCHANGED <<ItemsArr, Items, TotalAmount, Description, CustomData,
                   threadVars, finalized>>

\* Clear that calls ClearAllItems() only
Clear_ItemsOnly ==
    /\ AllIdle
    /\ ItemsArr' = <<>>
    /\ Items' = MakeMap
    /\ Returned("Clear", NoArg, NoError)
    /\ UNCHANGED <<TaxesArr, Taxes, TotalAmount, Description, CustomData,
                   threadVars, finalized>>

\* Clear: ClearAllItems() then ClearAllTaxes()
Clear ==
    /\ AllIdle
    /\ ItemsArr' = <<>>
    /\ Items' = MakeMap
    /\ TaxesArr' = <<>>
    /\ Taxes' = MakeMap
    /\ Returned("Clear", NoArg, NoError)
    /\ UNCHANGED <<TotalAmount, Description, CustomData, threadVars, finalized>>

SetDescription(desc) ==
    /\ AllIdle
    /\ IF desc = ""
       THEN /\ Description' = Description
            /\ Returned("SetDescription", [Name |-> desc], Panic)
       ELSE /\ Description' = desc
            /\ Returned("SetDescription", [Name |-> desc], NoError)
    /\ UNCHANGED <<ItemsArr, TaxesArr, Items, Taxes, TotalAmount, CustomData,
                   threadVars, finalized>>

\* SetTotalAmount without the zero check
SetTotalAmount_NoGuard(amt) ==
    /\ AllIdle
    /\ TotalAmount' = amt
    /\ Returned("SetTotalAmount", [Amount |-> amt], NoError)
    /\ UNCHANGED <<ItemsArr, TaxesArr, Items, Taxes, Description, CustomData,
                   threadVars, finalized>>

SetTotalAmount(amt) ==
    /\ AllIdle
    /\ IF amt = 0
       THEN /\ TotalAmount' = TotalAmount
            /\ Returned("SetTotalAmount", [Amount |-> amt], Panic)
       ELSE /\ TotalAmount' = amt
            /\ Returned("SetTotalAmount", [Amount |-> amt], NoError)
    /\ UNCHANGED <<ItemsArr, TaxesArr, Items, Taxes, Description, CustomData,
                   threadVars, finalized>>

\* ------------------------------------ SetCustomData, executed without overlap
\* SetCustomData that makes a new map on every call
SetCustomData_Fresh(key, val) ==
    /\ AllIdle
    /\ mutex = 0
    /\ CustomData' = MapSet(MakeMap, key, val)
    /\ Returned("SetCustomData", [Key |-> key, Val |-> val], NoError)
    /\ UNCHANGED <<ItemsArr, TaxesArr, Items, Taxes, TotalAmount, Description,
                   threadVars, finalized>>

SetCustomData(key, val) ==
    /\ AllIdle
    /\ mutex = 0
    /\ LET made == IF CustomData.nil THEN MakeMap ELSE CustomData
       IN  CustomData' = MapSet(made, key, val)
    /\ Returned("SetCustomData", [Key |-> key, Val |-> val], NoError)
    /\ UNCHANGED <<ItemsArr, TaxesArr, Items, Taxes, TotalAmount, Description,
                   threadVars, finalized>>

\* -------------------------------- PrepareForRequest, executed without overlap
\* the item loop body storing every entry under the key of index 0
StoreItem_FirstKey(m, ix, value) ==
    LET itemName == ItemKey(0)
        m1 == MapSet(m, itemName, ZeroItem)
        read == MapGet(m1, itemName, ZeroItem)
        tempItem == [read EXCEPT !.Name = value.Name,
                                 !.Quantity = value.Quantity,
                                 !.UnitPrice = value.UnitPrice,
                                 !.TotalPrice = value.TotalPrice,
                                 !.Description = value.Description]
    IN  MapSet(m1, itemName, tempItem)

\* one iteration of the item loop: lines 191-199
StoreItem(m, ix, value) ==
    LET itemName == ItemKey(ix)
        m1 == MapSet(m, itemName, ZeroItem)
        read == MapGet(m1, itemName, ZeroItem)
        tempItem == [read EXCEPT !.Name = value.Name,
                                 !.Quantity = value.Quantity,
                                 !.UnitPrice = value.UnitPrice,
                                 !.TotalPrice = value.TotalPrice,
                                 !.Description = value.Description]
    IN  MapSet(m1, itemName, tempItem)

\* one iteration of the tax loop: lines 203-208
StoreTax(m, ix, value) ==
    LET taxName == TaxKey(ix)
        m1 == MapSet(m, taxName, ZeroTax)
        read == MapGet(m1, taxName, ZeroTax)
        tempTax == [read EXCEPT !.Name = value.Name, !.Amount = value.Amount]
    IN  MapSet(m1, taxName, tempTax)

RECURSIVE PopulateItems(_, _, _)
PopulateItems(m, arr, ix) ==
    IF ix >= Len(arr) THEN m
    ELSE PopulateItems(StoreItem(m, ix, arr[ix + 1]), arr, ix + 1)

RECURSIVE PopulateTaxes(_, _, _)
PopulateTaxes(m, arr, ix) ==
    IF ix >= Len(arr) THEN m
    ELSE PopulateTaxes(StoreTax(m, ix, arr[ix + 1]), arr, ix + 1)

\* PrepareForRequest that hands the ordered slices over to the maps and empties them
PrepareForRequest_Drain ==
    /\ AllIdle
    /\ mutex = 0
    /\ Items' = PopulateItems(MakeMap, ItemsArr, 0)
    /\ Taxes' = PopulateTaxes(MakeMap, TaxesArr, 0)
    /\ ItemsArr' = <<>>
    /\ TaxesArr' = <<>>
    /\ finalized' = TRUE
    /\ Returned("PrepareForRequest", NoArg, NoError)
    /\ UNCHANGED <<TotalAmount, Description, CustomData, threadVars>>

PrepareForRequest ==
    /\ AllIdle
    /\ mutex = 0
    /\ Items' = PopulateItems(MakeMap, ItemsArr, 0)
    /\ Taxes' = PopulateTaxes(MakeMap, TaxesArr, 0)
    /\ finalized' = TRUE
    /\ Returned("PrepareForRequest", NoArg, NoError)
    /\ UNCHANGED <<ItemsArr, TaxesArr, TotalAmount, Description, CustomData, threadVars>>

\* ------------------------------------------------------------ construction
ZeroFrame == [op |-> "", key |-> "", val |-> "", ix |-> 0,
              itemsRange |-> <<>>, taxesRange |-> <<>>,
              tempItem |-> ZeroItem, tempTax |-> ZeroTax]
NoCall == [key |-> "", val |-> ""]

Init ==
    /\ ItemsArr = <<>>
    /\ TaxesArr = <<>>
    /\ Items = NilMap
    /\ Taxes = NilMap
    /\ TotalAmount = 0
    /\ Description = ""
    /\ CustomData = NilMap
    /\ mutex = 0
    /\ pc = [t \in Threads |-> "idle"]
    /\ frame = [t \in Threads |-> ZeroFrame]
    /\ overlap = [t \in Threads |-> [u \in Threads |-> NoCall]]
    /\ ret = [op |-> "new", arg |-> NoArg, err |-> NoError]
    /\ prevOp = "new"
    /\ finalized = FALSE

DoAddItem == \E name \in Names, quantity \in Quantities, unitPrice \in UnitPrices,
                totalPrice \in TotalPrices, desc \in ItemDescs :
                AddItem(name, quantity, unitPrice, totalPrice, desc)
DoRemoveItem == \E name \in Names : RemoveItem(name)
DoAddTax == \E name \in TaxNames, amount \in TaxAmounts : AddTax(name, amount)
DoRemoveTax == \E name \in TaxNames : RemoveTax(name)
DoSetDescription == \E desc \in Descs : SetDescription(desc)
DoSetTotalAmount == \E amt \in Amounts : SetTotalAmount(amt)
DoSetCustomData == \E key \in Keys, val \in Vals : SetCustomData(key, val)

Next ==
    \/ DoAddItem
    \/ DoRemoveItem
    \/ ClearAllItems
    \/ DoAddTax
    \/ DoRemoveTax
    \/ ClearAllTaxes
    \/ Clear
    \/ PrepareForRequest

Spec == Init /\ [][Next]_vars

\* the item operations with records that differ in their fields, one call at a time
VarQuantities == {1, 2}
ItemsAddItem == \E name \in Names, quantity \in VarQuantities, unitPrice \in UnitPrices,
                   totalPrice \in TotalPrices, desc \in ItemDescs :
                   AddItem(name, quantity, unitPrice, totalPrice, desc)

NextItems ==
    \/ ItemsAddItem
    \/ DoRemoveItem
    \/ ClearAllItems
    \/ PrepareForRequest

SpecItems == Init /\ [][NextItems]_vars

\* the scalar setters and the custom data, one call at a time
FieldsAddItem == \E quantity \in Quantities, unitPrice \in UnitPrices,
                    totalPrice \in TotalPrices, desc \in ItemDescs :
                    AddItem("A", quantity, unitPrice, totalPrice, desc)
FieldsAddTax == \E amount \in TaxAmounts : AddTax("VAT", amount)

NextFields ==
    \/ DoSetDescription
    \/ DoSetTotalAmount
    \/ DoSetCustomData
    \/ FieldsAddItem
    \/ FieldsAddTax
    \/ ClearAllItems
    \/ ClearAllTaxes
    \/ Clear
    \/ PrepareForRequest

SpecFields == Init /\ [][NextFields]_vars

\* ------------------------------------------- goroutines, statement by statement
\* The goroutines start on an invoice already built by serialized AddItem and
\* AddTax calls, and share it.
ConcItems == <<[Name |-> "A", Quantity |-> 1, UnitPrice |-> 50, TotalPrice |-> 50, Description |-> "desc"],
               [Name |-> "B", Quantity |-> 1, UnitPrice |-> 50, TotalPrice |-> 50, Description |-> "desc"]>>
ConcTaxes == <<[Name |-> "VAT", Amount |-> 30]>>

InitConc ==
    /\ ItemsArr \in {SubSeq(ConcItems, 1, n) : n \in 0..Len(ConcItems)}
    /\ TaxesArr \in {SubSeq(ConcTaxes, 1, n) : n \in 0..Len(ConcTaxes)}
    /\ Items = NilMap
    /\ Taxes = NilMap
    /\ TotalAmount = 0
    /\ Description = ""
    /\ CustomData = NilMap
    /\ mutex = 0
    /\ pc = [t \in Threads |-> "idle"]
    /\ frame = [t \in Threads |-> ZeroFrame]
    /\ overlap = [t \in Threads |-> [u \in Threads |-> NoCall]]
    /\ ret = [op |-> "new", arg |-> NoArg, err |-> NoError]
    /\ prevOp = "new"
    /\ finalized = FALSE

Goto(t, label) == pc' = [pc EXCEPT ![t] = label]

\* the goroutine returns: its frame is popped
Return(t) ==
    /\ pc' = [pc EXCEPT ![t] = "idle"]
    /\ frame' = [frame EXCEPT ![t] = ZeroFrame]

\* a Lock that does not wait for the holder
Lock_NoWait(t) == mutex' = t

\* an Unlock that leaves the mutex held
Unlock_Noop(t) == mutex' = mutex

\* sync.RWMutex Lock / Unlock
Lock(t) == mutex = 0 /\ mutex' = t
Unlock(t) == mutex' = 0

\* ---- SetCustomData, lines 173-180
SCD_Call(t, key, val) ==
    /\ pc[t] = "idle"
    /\ Goto(t, "L174")
    /\ frame' = [frame EXCEPT ![t] = [ZeroFrame EXCEPT !.op = "SetCustomData",
                                                       !.key = key, !.val = val]]
    /\ UNCHANGED <<invoiceVars, mutex, overlap, ret, prevOp, finalized>>

\* if i.CustomData == nil
SCD_L174(t) ==
    /\ pc[t] = "L174"
    /\ Goto(t, IF CustomData.nil THEN "L175" ELSE "L177")
    /\ UNCHANGED <<invoiceVars, mutex, frame, overlap, ret, prevOp, finalized>>

\* i.CustomData = make(map[string]interface{})
SCD_L175(t) ==
    /\ pc[t] = "L175"
    /\ CustomData' = MakeMap
    /\ Goto(t, "L177")
    /\ UNCHANGED <<ItemsArr, TaxesArr, Items, Taxes, TotalAmount, Description,
                   mutex, frame, overlap, ret, prevOp, finalized>>

\* i.Lock()
SCD_L177(t) ==
    /\ pc[t] = "L177"
    /\ Lock(t)
    /\ Goto(t, "L178")
    /\ UNCHANGED <<invoiceVars, frame, overlap, ret, prevOp, finalized>>

\* i.CustomData[key] = val   (an assignment to a nil map panics)
SCD_L178(t) ==
    /\ pc[t] = "L178"
    /\ IF CustomData.nil
       THEN Goto(t, "panic") /\ CustomData' = CustomData
       ELSE Goto(t, "L179") /\ CustomData' = MapSet(CustomData, frame[t].key, frame[t].val)
    /\ UNCHANGED <<ItemsArr, TaxesArr, Items, Taxes, TotalAmount, Description,
                   mutex, frame, overlap, ret, prevOp, finalized>>

\* i.Unlock() and return
SCD_L179(t) ==
    /\ pc[t] = "L179"
    /\ Unlock(t)
    /\ Return(t)
    /\ overlap' = [u \in Threads |->
                     IF u = t THEN [w \in Threads |-> NoCall]
                     ELSE IF frame[u].op = "SetCustomData"
                     THEN [overlap[u] EXCEPT ![t] = [key |-> frame[t].key, val |-> frame[t].val]]
                     ELSE overlap[u]]
    /\ UNCHANGED <<invoiceVars, ret, prevOp, finalized>>

\* ---- PrepareForRequest, lines 182-212
PFR_Call(t) ==
    /\ pc[t] = "idle"
    /\ Goto(t, "L183")
    /\ frame' = [frame EXCEPT ![t] = [ZeroFrame EXCEPT !.op = "PrepareForRequest"]]
    /\ UNCHANGED <<invoiceVars, mutex, overlap, ret, prevOp, finalized>>

\* i.InvoiceIn.Items = make(map[string]item)
PFR_L183(t) ==
    /\ pc[t] = "L183"
    /\ Items' = MakeMap
    /\ Goto(t, "L184")
    /\ UNCHANGED <<ItemsArr, TaxesArr, Taxes, TotalAmount, Description, CustomData,
                   mutex, frame, overlap, ret, prevOp, finalized>>

\* i.InvoiceIn.Taxes = make(map[string]tax)
PFR_L184(t) ==
    /\ pc[t] = "L184"
    /\ Taxes' = MakeMap
    /\ Goto(t, "L188")
    /\ UNCHANGED <<ItemsArr, TaxesArr, Items, TotalAmount, Description, CustomData,
                   mutex, frame, overlap, ret, prevOp, finalized>>

\* PrepareForRequest without its Lock() call
PFR_L188_NoLock(t) ==
    /\ pc[t] = "L188"
    /\ Goto(t, "L190")
    /\ UNCHANGED <<invoiceVars, mutex, frame, overlap, ret, prevOp, finalized>>

\* i.Lock()
PFR_L188(t) ==
    /\ pc[t] = "L188"
    /\ Lock(t)
    /\ Goto(t, "L190")
    /\ UNCHANGED <<invoiceVars, frame, overlap, ret, prevOp, finalized>>

\* for ix, value := range i.InvoiceIn.ItemsArr: the slice is evaluated once
PFR_L190(t) ==
    /\ pc[t] = "L190"
    /\ frame' = [frame EXCEPT ![t].itemsRange = ItemsArr, ![t].ix = 0]
    /\ Goto(t, IF Len(ItemsArr) > 0 THEN "L192" ELSE "L202")
    /\ UNCHANGED <<invoiceVars, mutex, overlap, ret, prevOp, finalized>>

\* i.InvoiceIn.Items[itemName] = item{}
PFR_L192(t) ==
    /\ pc[t] = "L192"
    /\ IF Items.nil
       THEN Goto(t, "panic") /\ Items' = Items
       ELSE Goto(t, "L193") /\ Items' = MapSet(Items, ItemKey(frame[t].ix), ZeroItem)
    /\ UNCHANGED <<ItemsArr, TaxesArr, Taxes, TotalAmount, Description, CustomData,
                   mutex, frame, overlap, ret, prevOp, finalized>>

\* tempItem := i.InvoiceIn.Items[itemName]; tempItem.Name = value.Name; ...
PFR_L193(t) ==
    /\ pc[t] = "L193"
    /\ LET value == frame[t].itemsRange[frame[t].ix + 1]
           read == MapGet(Items, ItemKey(frame[t].ix), ZeroItem)
       IN  frame' = [frame EXCEPT ![t].tempItem =
                        [read EXCEPT !.Name = value.Name,
                                     !.Quantity = value.Quantity,
                                     !.UnitPrice = value.UnitPrice,
                                     !.TotalPrice = value.TotalPrice,
                                     !.Description = value.Description]]
    /\ Goto(t, "L199")
    /\ UNCHANGED <<invoiceVars, mutex, overlap, ret, prevOp, finalized>>

\* i.InvoiceIn.Items[itemName] = tempItem, then the next iteration
PFR_L199(t) ==
    /\ pc[t] = "L199"
    /\ IF Items.nil
       THEN /\ Goto(t, "panic")
            /\ UNCHANGED <<Items, frame>>
       ELSE /\ Items' = MapSet(Items, ItemKey(frame[t].ix), frame[t].tempItem)
            /\ frame' = [frame EXCEPT ![t].ix = frame[t].ix + 1, ![t].tempItem = ZeroItem]
            /\ Goto(t, IF frame[t].ix + 1 < Len(frame[t].itemsRange) THEN "L192" ELSE "L202")
    /\ UNCHANGED <<ItemsArr, TaxesArr, Taxes, TotalAmount, Description, CustomData,
                   mutex, overlap, ret, prevOp, finalized>>

\* for ix, value := range i.InvoiceIn.TaxesArr
PFR_L202(t) ==
    /\ pc[t] = "L202"
    /\ frame' = [frame EXCEPT ![t].taxesRange = TaxesArr, ![t].ix = 0]
    /\ Goto(t, IF Len(TaxesArr) > 0 THEN "L204" ELSE "L211")
    /\ UNCHANGED <<invoiceVars, mutex, overlap, ret, prevOp, finalized>>

\* i.InvoiceIn.Taxes[taxName] = tax{}
PFR_L204(t) ==
    /\ pc[t] = "L204"
    /\ IF Taxes.nil
       THEN Goto(t, "panic") /\ Taxes' = Taxes
       ELSE Goto(t, "L205") /\ Taxes' = MapSet(Taxes, TaxKey(frame[t].ix), ZeroTax)
    /\ UNCHANGED <<ItemsArr, TaxesArr, Items, TotalAmount, Description, CustomData,
                   mutex, frame, overlap, ret, prevOp, finalized>>

\* tempTax := i.InvoiceIn.Taxes[taxName]; tempTax.Name = value.Name; ...
PFR_L205(t) ==
    /\ pc[t] = "L205"
    /\ LET value == frame[t].taxesRange[frame[t].ix + 1]
           read == MapGet(Taxes, TaxKey(frame[t].ix), ZeroTax)
       IN  frame' = [frame EXCEPT ![t].tempTax =
                        [read EXCEPT !.Name = value.Name, !.Amount = value.Amount]]
    /\ Goto(t, "L208")
    /\ UNCHANGED <<invoiceVars, mutex, overlap, ret, prevOp, finalized>>

\* i.InvoiceIn.Taxes[taxName] = tempTax, then the next iteration
PFR_L208(t) ==
    /\ pc[t] = "L208"
    /\ IF Taxes.nil
       THEN /\ Goto(t, "panic")
            /\ UNCHANGED <<Taxes, frame>>
       ELSE /\ Taxes' = MapSet(Taxes, TaxKey(frame[t].ix), frame[t].tempTax)
            /\ frame' = [frame EXCEPT ![t].ix = frame[t].ix + 1, ![t].tempTax = ZeroTax]
            /\ Goto(t, IF frame[t].ix + 1 < Len(frame[t].taxesRange) THEN "L204" ELSE "L211")
    /\ UNCHANGED <<ItemsArr, TaxesArr, Items, TotalAmount, Description, CustomData,
                   mutex, overlap, ret, prevOp, finalized>>

\* i.Unlock() and return
PFR_L211(t) ==
    /\ pc[t] = "L211"
    /\ Unlock(t)
    /\ Return(t)
    /\ finalized' = TRUE
    /\ UNCHANGED <<invoiceVars, overlap, ret, prevOp>>

SCD_Start == \E t \in Threads, key \in Keys, val \in Vals : SCD_Call(t, key, val)
SCD_Check == \E t \in Threads : SCD_L174(t)
SCD_Make == \E t \in Threads : SCD_L175(t)
SCD_Lock == \E t \in Threads : SCD_L177(t)
SCD_Write == \E t \in Threads : SCD_L178(t)
SCD_Unlock == \E t \in Threads : SCD_L179(t)
PFR_Start == \E t \in Threads : PFR_Call(t)
PFR_ResetItems == \E t \in Threads : PFR_L183(t)
PFR_ResetTaxes == \E t \in Threads : PFR_L184(t)
PFR_Lock == \E t \in Threads : PFR_L188(t)
PFR_RangeItems == \E t \in Threads : PFR_L190(t)
PFR_ItemInit == \E t \in Threads : PFR_L192(t)
PFR_ItemCopy == \E t \in Threads : PFR_L193(t)
PFR_ItemStore == \E t \in Threads : PFR_L199(t)
PFR_RangeTaxes == \E t \in Threads : PFR_L202(t)
PFR_TaxInit == \E t \in Threads : PFR_L204(t)
PFR_TaxCopy == \E t \in Threads : PFR_L205(t)
PFR_TaxStore == \E t \in Threads : PFR_L208(t)
PFR_Unlock == \E t \in Threads : PFR_L211(t)

NextConc ==
    \/ SCD_Start
    \/ SCD_Check
    \/ SCD_Make
    \/ SCD_Lock
    \/ SCD_Write
    \/ SCD_Unlock
    \/ PFR_Start
    \/ PFR_ResetItems
    \/ PFR_ResetTaxes
    \/ PFR_Lock
    \/ PFR_RangeItems
    \/ PFR_ItemInit
    \/ PFR_ItemCopy
    \/ PFR_ItemStore
    \/ PFR_RangeTaxes
    \/ PFR_TaxInit
    \/ PFR_TaxCopy
    \/ PFR_TaxStore
    \/ PFR_Unlock

SpecConc == InitConc /\ [][NextConc]_vars

\* A goroutine that has entered a call keeps running: every statement but Lock() is
\* taken once it is continuously enabled; sync.Mutex hands the lock to a waiter
\* that has waited long enough (starvation mode), so a goroutine that finds Lock()
\* enabled again and again gets it.
Running(t) ==
    \/ SCD_L174(t) \/ SCD_L175(t) \/ SCD_L178(t) \/ SCD_L179(t)
    \/ PFR_L183(t) \/ PFR_L184(t) \/ PFR_L190(t) \/ PFR_L192(t) \/ PFR_L193(t)
    \/ PFR_L199(t) \/ PFR_L202(t) \/ PFR_L204(t) \/ PFR_L205(t) \/ PFR_L208(t)
    \/ PFR_L211(t)
Acquiring(t) == SCD_L177(t) \/ PFR_L188(t)

SpecConcFair ==
    /\ SpecConc
    /\ \A t \in Threads : WF_vars(Running(t)) /\ SF_vars(Acquiring(t))

\* ======================================================================
\* Properties
\* ======================================================================
\* what the documentation expects, written without the model's helpers
EmptyMap == [nil |-> FALSE, kv |-> <<>>]
ItemKeyNames == <<"item_0", "item_1", "item_2", "item_3">>
TaxKeyNames == <<"tax_0", "tax_1", "tax_2">>
ExpectedItems(arr) ==
    [nil |-> FALSE,
     kv |-> [k \in {ItemKeyNames[i] : i \in 1..Len(arr)} |->
                arr[CHOOSE i \in 1..Len(arr) : ItemKeyNames[i] = k]]]
ExpectedTaxes(arr) ==
    [nil |-> FALSE,
     kv |-> [k \in {TaxKeyNames[i] : i \in 1..Len(arr)} |->
                arr[CHOOSE i \in 1..Len(arr) : TaxKeyNames[i] = k]]]
HasName(arr, name) == \E i \in 1..Len(arr) : arr[i].Name = name
NamesOf(arr) == [i \in 1..Len(arr) |-> arr[i].Name]
SerialOps == {"AddItem", "RemoveItem", "ClearAllItems", "AddTax", "RemoveTax",
              "ClearAllTaxes", "Clear", "SetDescription", "SetTotalAmount",
              "SetCustomData", "PrepareForRequest"}

\* C1 (SpecConc): when a SetCustomData(k1, v1) call returns and a SetCustomData(k2, v2)
\* call of the other goroutine, k2 # k1, returned while it was in progress, so that
\* both concurrent calls have now returned, CustomData holds k1 -> v1 and k2 -> v2:
\* no update is lost, whether CustomData was nil or populated when the calls began.
C1_NoLostUpdate ==
    [][\A t \in Threads, u \in Threads :
         ( /\ t # u
           /\ pc[t] = "L179" /\ pc'[t] = "idle"
           /\ pc[u] = "idle"
           /\ overlap[t][u] # NoCall
           /\ overlap[t][u].key # frame[t].key )
         => ( /\ frame[t].key \in MapKeys(CustomData')
              /\ overlap[t][u].key \in MapKeys(CustomData')
              /\ MapGet(CustomData', frame[t].key, "") = frame[t].val
              /\ MapGet(CustomData', overlap[t][u].key, "") = overlap[t][u].val )]_vars

\* C2 (SpecConc): at the moment a PrepareForRequest call returns, while no mutator
\* runs, Items is exactly {item_i -> ItemsArr[i]} and Taxes exactly {tax_i -> TaxesArr[i]},
\* also when another PrepareForRequest call is in progress.
C2_PrepareReturnsComplete ==
    [][\A t \in Threads :
         (pc[t] = "L211" /\ pc'[t] = "idle")
         => (Items' = ExpectedItems(ItemsArr') /\ Taxes' = ExpectedTaxes(TaxesArr'))]_vars

\* C3 (Spec): no two entries of ItemsArr have the same name and no two entries of
\* TaxesArr have the same name, in every state reachable by serialized calls.
C3_UniqueNames ==
    /\ \A i \in 1..Len(ItemsArr), j \in 1..Len(ItemsArr) :
          i # j => ItemsArr[i].Name # ItemsArr[j].Name
    /\ \A i \in 1..Len(TaxesArr), j \in 1..Len(TaxesArr) :
          i # j => TaxesArr[i].Name # TaxesArr[j].Name

\* both slices are full and a duplicate tax was just refused
C3_Witness ==
    /\ Len(ItemsArr) = 3
    /\ Len(TaxesArr) = 2
    /\ ret.op = "AddTax"
    /\ ret.err = DuplicateName

\* C4 (Spec): AddItem with the name of an item already in ItemsArr returns
\* DuplicateName and leaves ItemsArr unchanged; AddItem with a name not present
\* returns no error.
C4_AddItemDuplicate ==
    [][ret'.op = "AddItem"
         => IF HasName(ItemsArr, ret'.arg.Name)
            THEN ret'.err = DuplicateName /\ ItemsArr' = ItemsArr
            ELSE ret'.err = NoError]_vars

\* a duplicate AddItem was just refused on a slice of two or more items
C4_Witness ==
    /\ ret.op = "AddItem"
    /\ ret.err = DuplicateName
    /\ Len(ItemsArr) >= 2
    /\ HasName(ItemsArr, ret.arg.Name)

\* C5 (Spec): an AddItem call whose name differs from every name added so far
\* succeeds, makes ItemsArr one longer, puts the given item last and keeps the
\* earlier elements in place; so distinct-name AddItem calls from an empty invoice
\* yield the items in call order.
C5_AddItemAppends ==
    [][(ret'.op = "AddItem" /\ ~HasName(ItemsArr, ret'.arg.Name))
         => /\ ret'.err = NoError
            /\ Len(ItemsArr') = Len(ItemsArr) + 1
            /\ ItemsArr'[Len(ItemsArr')] = ret'.arg
            /\ \A i \in 1..Len(ItemsArr) : ItemsArr'[i] = ItemsArr[i]]_vars

\* three AddItem calls in a row have filled the slice, the last one's item at the end
C5_Witness ==
    /\ ret.op = "AddItem"
    /\ prevOp = "AddItem"
    /\ ret.err = NoError
    /\ Len(ItemsArr) = 3
    /\ ItemsArr[3] = ret.arg

\* C6 (Spec): RemoveItem(name) reports no error; with no item of that name ItemsArr
\* is unchanged; with one present at position i, ItemsArr loses exactly that element
\* and the others keep their order.
C6_RemoveItem ==
    [][ret'.op = "RemoveItem"
         => /\ ret'.err = NoError
            /\ IF ~HasName(ItemsArr, ret'.arg.Name)
               THEN ItemsArr' = ItemsArr
               ELSE /\ Len(ItemsArr') = Len(ItemsArr) - 1
                    /\ \E i \in 1..Len(ItemsArr) :
                          /\ ItemsArr[i].Name = ret'.arg.Name
                          /\ \A j \in 1..Len(ItemsArr') :
                                ItemsArr'[j] = IF j < i THEN ItemsArr[j] ELSE ItemsArr[j + 1]]_vars

\* B was removed from the middle of A, B, C: the maps of the PrepareForRequest just
\* before still show the three items
C6_Witness ==
    /\ ret.op = "RemoveItem"
    /\ ret.arg.Name = "B"
    /\ prevOp = "PrepareForRequest"
    /\ NamesOf(ItemsArr) = <<"A", "C">>
    /\ MapKeys(Items) = {"item_0", "item_1", "item_2"}
    /\ Items.kv["item_1"].Name = "B"

\* C7 (Spec): after a PrepareForRequest run without overlap the keys of Items are
\* exactly item_0 .. item_(n-1), item_i holding a copy of ItemsArr[i], and tax_i a
\* copy of TaxesArr[i]; A, B, C with B removed gives item_0 -> A, item_1 -> C.
C7_PositionalKeys ==
    [][ret'.op = "PrepareForRequest"
         => /\ Items' = ExpectedItems(ItemsArr')
            /\ Taxes' = ExpectedTaxes(TaxesArr')
            /\ ItemsArr' = ItemsArr
            /\ TaxesArr' = TaxesArr]_vars

\* finalized right after a RemoveItem that left A, C: item_0 -> A, item_1 -> C, no item_2
C7_Witness ==
    /\ ret.op = "PrepareForRequest"
    /\ prevOp = "RemoveItem"
    /\ NamesOf(ItemsArr) = <<"A", "C">>
    /\ MapKeys(Items) = {"item_0", "item_1"}
    /\ Items.kv["item_0"] = ItemsArr[1]
    /\ Items.kv["item_1"] = ItemsArr[2]
    /\ Len(TaxesArr) = 2
    /\ Taxes.kv["tax_1"] = TaxesArr[2]

\* C8 (Spec): a PrepareForRequest directly after a PrepareForRequest leaves Items and
\* Taxes as the first left them, and every PrepareForRequest leaves ItemsArr,
\* TaxesArr, Description, TotalAmount and CustomData unchanged.
C8_PrepareIdempotent ==
    [][ret'.op = "PrepareForRequest"
         => /\ ItemsArr' = ItemsArr
            /\ TaxesArr' = TaxesArr
            /\ Description' = Description
            /\ TotalAmount' = TotalAmount
            /\ CustomData' = CustomData
            /\ (ret.op = "PrepareForRequest" => (Items' = Items /\ Taxes' = Taxes))]_vars

\* two PrepareForRequest calls in a row on a populated invoice
C8_Witness ==
    /\ ret.op = "PrepareForRequest"
    /\ prevOp = "PrepareForRequest"
    /\ Len(ItemsArr) >= 2
    /\ Len(TaxesArr) >= 1
    /\ Cardinality(MapKeys(Items)) = Len(ItemsArr)
    /\ Cardinality(MapKeys(Taxes)) = Len(TaxesArr)

C10_ClearAllItems ==
    [][/\ (ret'.op = "ClearAllItems"
             => /\ ItemsArr' = <<>>
                /\ Items' = EmptyMap
                /\ TaxesArr' = TaxesArr
                /\ Taxes' = Taxes)
       /\ ((ret.op = "ClearAllItems" /\ ret'.op = "PrepareForRequest")
             => Items' = EmptyMap)]_vars

\* a PrepareForRequest directly after a ClearAllItems: no items, the taxes still there
C10_Witness ==
    /\ ret.op = "PrepareForRequest"
    /\ prevOp = "ClearAllItems"
    /\ Items = EmptyMap
    /\ ItemsArr = <<>>
    /\ Len(TaxesArr) = 2
    /\ Cardinality(MapKeys(Taxes)) = 2

\* C11 (SpecFields): SetTotalAmount(0) and SetDescription("") panic and change no
\* field; SetTotalAmount(v), v # 0, stores v; so TotalAmount changes only in a
\* successful SetTotalAmount, to its non-zero argument, and never back to zero.
C11_SetterPreconditions ==
    [][/\ (ret'.op = "SetTotalAmount"
             => IF ret'.arg.Amount = 0
                THEN ret'.err = Panic /\ invoiceVars' = invoiceVars
                ELSE ret'.err = NoError /\ TotalAmount' = ret'.arg.Amount)
       /\ (ret'.op = "SetDescription" /\ ret'.arg.Name = ""
             => ret'.err = Panic /\ invoiceVars' = invoiceVars)
       /\ (TotalAmount' # TotalAmount
             => /\ ret'.op = "SetTotalAmount"
                /\ ret'.err = NoError
                /\ TotalAmount' = ret'.arg.Amount
                /\ TotalAmount' # 0)]_vars

\* SetTotalAmount(0) has just panicked on an invoice whose amount and description
\* had been set: both are still there
C11_Witness ==
    /\ ret.op = "SetTotalAmount"
    /\ ret.arg.Amount = 0
    /\ ret.err = Panic
    /\ prevOp = "SetTotalAmount"
    /\ TotalAmount = 42
    /\ Description = "Hello World"

\* C12 (Spec): AddItem, RemoveItem, AddTax and RemoveTax, succeeding, failing or
\* doing nothing, leave Items and Taxes as they were; AddItem and RemoveItem leave
\* TaxesArr unchanged, AddTax and RemoveTax leave ItemsArr unchanged.
C12_MutatorsAreLazy ==
    [][/\ (ret'.op \in {"AddItem", "RemoveItem", "AddTax", "RemoveTax"}
             => Items' = Items /\ Taxes' = Taxes)
       /\ (ret'.op \in {"AddItem", "RemoveItem"} => TaxesArr' = TaxesArr)
       /\ (ret'.op \in {"AddTax", "RemoveTax"} => ItemsArr' = ItemsArr)]_vars

\* maps finalized for two items and two taxes; since then an item was added and
\* a tax removed, and the maps still show the finalized state
C12_Witness ==
    /\ ret.op = "RemoveTax"
    /\ prevOp = "AddItem"
    /\ Len(ItemsArr) = 3
    /\ Len(TaxesArr) = 1
    /\ MapKeys(Items) = {"item_0", "item_1"}
    /\ MapKeys(Taxes) = {"tax_0", "tax_1"}

\* C13 (SpecFields): Clear leaves ItemsArr, TaxesArr, Items and Taxes empty and keeps
\* Description, TotalAmount and CustomData; ClearAllItems followed by ClearAllTaxes
\* ends in the same state, neither of the two touching the three kept fields.
C13_ClearIsBothClears ==
    [][/\ (ret'.op = "Clear"
             => /\ ItemsArr' = <<>> /\ Items' = EmptyMap
                /\ TaxesArr' = <<>> /\ Taxes' = EmptyMap
                /\ Description' = Description
                /\ TotalAmount' = TotalAmount
                /\ CustomData' = CustomData)
       /\ (ret'.op \in {"ClearAllItems", "ClearAllTaxes"}
             => /\ Description' = Description
                /\ TotalAmount' = TotalAmount
                /\ CustomData' = CustomData)
       /\ ((ret.op = "ClearAllItems" /\ ret'.op = "ClearAllTaxes")
             => /\ ItemsArr' = <<>> /\ Items' = EmptyMap
                /\ TaxesArr' = <<>> /\ Taxes' = EmptyMap)]_vars

\* Clear directly after a finalization, on an invoice with description, amount and
\* custom data set: the four collections are empty, the three fields kept
C13_Witness ==
    /\ ret.op = "Clear"
    /\ prevOp = "PrepareForRequest"
    /\ ItemsArr = <<>> /\ TaxesArr = <<>>
    /\ Items = EmptyMap /\ Taxes = EmptyMap
    /\ Description = "Hello World"
    /\ TotalAmount = 80
    /\ MapKeys(CustomData) = {"k1", "k2"}

\* C14 (SpecFields): SetCustomData(k, v) run without overlap, on a nil or a populated
\* CustomData, leaves a made map with CustomData[k] = v, every other key as before
\* and no further key, and leaves the slices, the transmission maps, Description
\* and TotalAmount unchanged.
C14_SetCustomData ==
    [][ret'.op = "SetCustomData"
         => /\ ~CustomData'.nil
            /\ MapKeys(CustomData') = MapKeys(CustomData) \cup {ret'.arg.Key}
            /\ CustomData'.kv[ret'.arg.Key] = ret'.arg.Val
            /\ \A k \in MapKeys(CustomData) \ {ret'.arg.Key} :
                  CustomData'.kv[k] = CustomData.kv[k]
            /\ <<ItemsArr, TaxesArr, Items, Taxes, Description, TotalAmount>>'
                  = <<ItemsArr, TaxesArr, Items, Taxes, Description, TotalAmount>>]_vars

\* two SetCustomData calls in a row on a finalized invoice: k1 holds the value just
\* written, k2 the value written before
C14_Witness ==
    /\ ret.op = "SetCustomData"
    /\ prevOp = "SetCustomData"
    /\ ret.arg.Key = "k1" /\ ret.arg.Val = "v2"
    /\ MapKeys(CustomData) = {"k1", "k2"}
    /\ CustomData.kv["k1"] = "v2"
    /\ CustomData.kv["k2"] = "v1"
    /\ MapKeys(Items) = {"item_0"}
    /\ TotalAmount = 80

\* the statements between Lock() and Unlock(): the CustomData entry write, and the
\* population loops of PrepareForRequest
InCritical(t) ==
    pc[t] \in {"L178", "L179",
               "L190", "L192", "L193", "L199", "L202", "L204", "L205", "L208", "L211"}

\* C15 (SpecConc): at most one goroutine at a time is between Lock() and Unlock(), and
\* it is the holder of the mutex: an entry write and a population loop, two population
\* loops or two entry writes are never in progress together.
C15_MutualExclusion ==
    /\ \A t \in Threads, u \in Threads : (t # u) => ~(InCritical(t) /\ InCritical(u))
    /\ \A t \in Threads : InCritical(t) => mutex = t

\* goroutine 1 is inside the item loop of PrepareForRequest while goroutine 2 waits
\* at the Lock() of SetCustomData
C15_Witness ==
    /\ pc[1] = "L199"
    /\ frame[1].ix = 1
    /\ pc[2] = "L177"
    /\ mutex = 1

\* C16 (SpecConcFair): every started SetCustomData and PrepareForRequest call returns;
\* a goroutine that has returned does not hold the mutex; the mutex is free whenever
\* no call is in progress.
C16_CallsReturn ==
    /\ [](AllIdle => mutex = 0)
    /\ [](\A t \in Threads : pc[t] = "idle" => mutex # t)
    /\ \A t \in Threads : (pc[t] # "idle") ~> (pc[t] = "idle")

\* goroutine 1 waits at the Lock() of PrepareForRequest while goroutine 2 holds the
\* mutex for its entry write
C16_Witness ==
    /\ pc[1] = "L188"
    /\ pc[2] = "L178"
    /\ mutex = 2

\* the position of a statement of PrepareForRequest in the order the documentation
\* gives: resets, acquire, item entries, tax entries, release
PFRRank(label) ==
    CASE label = "L183" -> 1
      [] label = "L184" -> 2
      [] label = "L188" -> 3
      [] label = "L190" -> 4
      [] label \in {"L192", "L193", "L199"} -> 5
      [] label = "L202" -> 6
      [] label \in {"L204", "L205", "L208"} -> 7
      [] label = "L211" -> 8
      [] OTHER -> 0

\* C17 (SpecConc): in each PrepareForRequest call the steps never go back in the order
\* resets, acquire, item entries, tax entries, release; both maps are reset before the
\* caller holds the mutex; every entry insertion is made by the holder of the mutex, the
\* item entries in increasing index order and before any tax entry; the mutex is
\* released after the last insertion, by the step that returns.
C17_PrepareStepOrder ==
    [][\A t \in Threads :
         (frame[t].op = "PrepareForRequest" /\ pc'[t] # pc[t])
         => /\ (pc'[t] = "idle" => (pc[t] = "L211" /\ mutex = t /\ mutex' = 0))
            /\ (pc'[t] # "idle" => PFRRank(pc'[t]) >= PFRRank(pc[t]))
            /\ (PFRRank(pc[t]) <= 3 => mutex # t)
            /\ (PFRRank(pc[t]) >= 4 => mutex = t)
            /\ (pc[t] = "L183" => Items' = EmptyMap)
            /\ (pc[t] = "L184" => Taxes' = EmptyMap)
            /\ ((mutex' = t /\ mutex # t) => pc[t] = "L188")
            /\ (Items' # Items
                  => \/ pc[t] = "L183"
                     \/ /\ PFRRank(pc[t]) = 5
                        /\ mutex = t /\ mutex' = t
                        /\ MapKeys(Items') = MapKeys(Items) \cup {ItemKeyNames[frame[t].ix + 1]})
            /\ (Taxes' # Taxes
                  => \/ pc[t] = "L184"
                     \/ /\ PFRRank(pc[t]) = 7
                        /\ mutex = t /\ mutex' = t
                        /\ MapKeys(Taxes') = MapKeys(Taxes) \cup {TaxKeyNames[frame[t].ix + 1]})
            /\ ((PFRRank(pc[t]) = PFRRank(pc'[t]) /\ PFRRank(pc[t]) \in {5, 7})
                  => frame'[t].ix \in {frame[t].ix, frame[t].ix + 1})]_vars

\* goroutine 1 has inserted two items and a tax and is about to release the mutex,
\* goroutine 2 has done its resets before that and waits at Lock()
C17_Witness ==
    /\ pc[1] = "L211"
    /\ mutex = 1
    /\ Items = ExpectedItems(ConcItems)
    /\ Taxes = ExpectedTaxes(ConcTaxes)
    /\ pc[2] = "L188"

\* C18 (Spec): after RemoveItem(name) no entry of ItemsArr is named name, and a second
\* RemoveItem(name) directly after it leaves every field of the invoice as the first
\* left it; the same for RemoveTax and TaxesArr.
C18_EnsureAbsent ==
    [][/\ (ret'.op = "RemoveItem"
             => /\ ~HasName(ItemsArr', ret'.arg.Name)
                /\ ((ret.op = "RemoveItem" /\ ret.arg = ret'.arg)
                      => invoiceVars' = invoiceVars))
       /\ (ret'.op = "RemoveTax"
             => /\ ~HasName(TaxesArr', ret'.arg.Name)
                /\ ((ret.op = "RemoveTax" /\ ret.arg = ret'.arg)
                      => invoiceVars' = invoiceVars))]_vars

\* RemoveTax("VAT") after another RemoveTax: the maps finalized with VAT first and
\* NHIL second are still there, TaxesArr holds NHIL only
C18_Witness ==
    /\ ret.op = "RemoveTax"
    /\ prevOp = "RemoveTax"
    /\ ret.arg.Name = "VAT"
    /\ NamesOf(TaxesArr) = <<"NHIL">>
    /\ MapKeys(Taxes) = {"tax_0", "tax_1"}
    /\ Taxes.kv["tax_0"].Name = "VAT"
    /\ Len(ItemsArr) = 3

IsEntry(arr, e) == \E i \in 1..Len(arr) : arr[i] = e

\* C19 (SpecItems): a record of ItemsArr never changes: every entry after a step is
\* an entry from before the step or the record a successful AddItem has just put at
\* the end, and an entry disappears only by RemoveItem of its name or a clear; a
\* refused AddItem alters nothing; AddItem(n, ...) directly after RemoveItem(n)
\* succeeds and puts the new record at the end.
C19_RecordsImmutable ==
    [][/\ \A i \in 1..Len(ItemsArr') :
             \/ IsEntry(ItemsArr, ItemsArr'[i])
             \/ /\ ret'.op = "AddItem" /\ ret'.err = NoError
                /\ i = Len(ItemsArr')
                /\ ItemsArr'[i] = ret'.arg
                /\ ~HasName(ItemsArr, ret'.arg.Name)
       /\ \A i \in 1..Len(ItemsArr) :
             \/ IsEntry(ItemsArr', ItemsArr[i])
             \/ ret'.op = "RemoveItem" /\ ret'.arg.Name = ItemsArr[i].Name
             \/ ret'.op \in {"ClearAllItems", "Clear"}
       /\ ((ret'.op = "AddItem" /\ ret'.err = DuplicateName) => ItemsArr' = ItemsArr)
       /\ ((ret.op = "RemoveItem" /\ ret'.op = "AddItem" /\ ret'.arg.Name = ret.arg.Name)
             => /\ ret'.err = NoError
                /\ Len(ItemsArr') = Len(ItemsArr) + 1
                /\ ItemsArr'[Len(ItemsArr')] = ret'.arg)]_vars

\* an item finalized with quantity 1 was removed and added again with quantity 2:
\* the new record is last in ItemsArr, the map still shows the old one
C19_Witness ==
    /\ ret.op = "AddItem"
    /\ prevOp = "RemoveItem"
    /\ ret.err = NoError
    /\ ret.arg.Quantity = 2
    /\ Len(ItemsArr) = 3
    /\ ItemsArr[3] = ret.arg
    /\ \E k \in MapKeys(Items) :
          Items.kv[k].Name = ret.arg.Name /\ Items.kv[k].Quantity = 1

====
